---- MODULE Spec2Model ----
(***************************************************************************)
(* MathJIT: tokenizer, recursive-descent parser, AST interpreter and JIT   *)
(* session, modelled as a state machine.  A line of input is a sequence of *)
(* characters; Parser::new tokenizes it, Parser::parse turns the token     *)
(* queue into ParseOutputs, and every ParseOutput is dispatched to an      *)
(* AstInterpreter and to a Jit that are fed the same sequence.             *)
(***************************************************************************)
EXTENDS Integers, Sequences, FiniteSets, TLC

VARIABLES
    input,          \* the line handed to Parser::new, a sequence of characters
    pc,             \* "read" | "new" | "parse" | "ast" | "jit" : position of the driver
    lexed,          \* result of MathToken::try_new on input
    tokens,         \* Parser.tokens : the mutable token queue
    parsed,         \* result of Parser::parse : [ok, outputs] or [ok, err]
    pending,        \* ParseOutputs of the line not yet dispatched
    stmt,           \* the ParseOutput being dispatched to the two backends
    ast_functions,  \* AstInterpreter.functions
    ast_resp,       \* last outcome of AstInterpreter::eval
    ast_alive,      \* FALSE once the interpreter process has panicked
    jit_functions,  \* Jit.functions
    cached_module,  \* Jit.cached_module : None or the module written as bitcode
    jit_resp,       \* last outcome of Jit::eval
    jit_alive,      \* FALSE once the JIT process has panicked
    installed,      \* history: the Functions dispatched so far, oldest first
    jit_built,      \* history: codegen.module and changed_functions of the last Jit::eval
    lines           \* number of lines read so far

vars == <<input, pc, lexed, tokens, parsed, pending, stmt, ast_functions, ast_resp,
          ast_alive, jit_functions, cached_module, jit_resp, jit_alive,
          installed, jit_built, lines>>

(***************************************************************************)
(* Bounds of the model.                                                    *)
(***************************************************************************)
\* lines read in one session
MaxLines == 4
\* nesting of user-function calls before the evaluation stack overflows
MaxDepth == 4
\* iterations of the sum loop that are unrolled
MaxIter == 12
\* magnitude above which a double is no longer tracked exactly
MaxMag == 100000

(***************************************************************************)
(* f64 values.  Integers are exact; the other doubles are classes.         *)
(***************************************************************************)
F(n) == [t |-> "num", n |-> n]
Frac == [t |-> "frac", n |-> 0]
Big(s) == [t |-> "big", n |-> s]
Inf(s) == [t |-> "inf", n |-> s]
NaN == [t |-> "nan", n |-> 0]
PI == [t |-> "pi", n |-> 0]

IsNum(a) == a.t = "num"

Sign(n) == IF n > 0 THEN 1 ELSE IF n < 0 THEN -1 ELSE 0

Abs(n) == IF n < 0 THEN -n ELSE n

\* an exact integer result, or the class of doubles beyond the tracked range
Clamp(n) == IF Abs(n) <= MaxMag THEN F(n) ELSE Big(Sign(n))

\* the class of the result when an operand is not an exact integer
Inexact(a, b) == IF a.t = "nan" \/ b.t = "nan" THEN NaN ELSE Frac

FAdd(a, b) == IF IsNum(a) /\ IsNum(b) THEN Clamp(a.n + b.n) ELSE Inexact(a, b)

FSub(a, b) == IF IsNum(a) /\ IsNum(b) THEN Clamp(a.n - b.n) ELSE Inexact(a, b)

FMul(a, b) == IF IsNum(a) /\ IsNum(b) THEN Clamp(a.n * b.n) ELSE Inexact(a, b)

FDiv(a, b) ==
    IF IsNum(a) /\ IsNum(b)
    THEN IF b.n = 0
         THEN IF a.n = 0 THEN NaN ELSE Inf(Sign(a.n))
         ELSE IF a.n % Abs(b.n) = 0
              THEN F(Sign(b.n) * (a.n \div Abs(b.n)))
              ELSE Frac
    ELSE Inexact(a, b)

FNeg(a) == IF IsNum(a) THEN F(-a.n)
           ELSE IF a.t \in {"big", "inf"} THEN [a EXCEPT !.n = -a.n] ELSE a

RECURSIVE IntPow(_, _)
IntPow(b, e) ==
    IF e = 0 THEN 1
    ELSE LET r == IntPow(b, e - 1)
         IN  IF Abs(r) > MaxMag THEN r ELSE r * b

\* f64::powf and llvm.pow.f64
FPow(a, b) ==
    IF IsNum(a) /\ IsNum(b)
    THEN IF b.n >= 0
         THEN IF Abs(a.n) <= 1 \/ b.n <= 20
              THEN Clamp(IntPow(a.n, b.n))
              ELSE Big(IF a.n < 0 /\ b.n % 2 = 1 THEN -1 ELSE 1)
         ELSE IF a.n = 0 THEN Inf(1)
              ELSE IF a.n = 1 THEN F(1)
              ELSE IF a.n = -1 THEN F(IF b.n % 2 = 0 THEN 1 ELSE -1)
              ELSE Frac
    ELSE Inexact(a, b)

RECURSIVE IntSqrt(_, _)
IntSqrt(n, r) == IF r * r >= n THEN r ELSE IntSqrt(n, r + 1)

\* f64::sqrt and llvm.sqrt.f64
FSqrt(a) ==
    IF IsNum(a)
    THEN IF a.n < 0 THEN NaN
         ELSE LET r == IntSqrt(a.n, 0) IN IF r * r = a.n THEN F(r) ELSE Frac
    ELSE Inexact(a, a)

\* f64::sin and llvm.sin.f64
FSin(a) == IF IsNum(a) /\ a.n = 0 THEN F(0) ELSE Inexact(a, a)

\* f64::cos and llvm.cos.f64
FCos(a) == IF IsNum(a) /\ a.n = 0 THEN F(1) ELSE Inexact(a, a)

\* i > stop on doubles (false when unordered)
FGt(a, b) ==
    IF IsNum(a) /\ IsNum(b) THEN a.n > b.n
    ELSE IF a.t = "nan" \/ b.t = "nan" THEN FALSE
    ELSE IF a.t \in {"big", "inf"} THEN a.n > 0
    ELSE IF b.t \in {"big", "inf"} THEN b.n < 0
    ELSE FALSE

\* ordered less-or-equal (FloatPredicate::OLE)
FOle(a, b) ==
    IF IsNum(a) /\ IsNum(b) THEN a.n <= b.n
    ELSE IF a.t = "nan" \/ b.t = "nan" THEN FALSE
    ELSE ~FGt(a, b)

(***************************************************************************)
(* Tokenizer (tokenizer.rs).  A character is a one-character string.       *)
(***************************************************************************)
Lower == {"a", "b", "c", "d", "e", "f", "g", "h", "i", "j", "k", "l", "m",
          "n", "o", "p", "q", "r", "s", "t", "u", "v", "w", "x", "y", "z"}

Upper == {"A", "B", "C", "D", "E", "F", "G", "H", "I", "J", "K", "L", "M",
          "N", "O", "P", "Q", "R", "S", "T", "U", "V", "W", "X", "Y", "Z"}

Digits == {"0", "1", "2", "3", "4", "5", "6", "7", "8", "9"}

DigitVal(c) ==
    CASE c = "0" -> 0 [] c = "1" -> 1 [] c = "2" -> 2 [] c = "3" -> 3
      [] c = "4" -> 4 [] c = "5" -> 5 [] c = "6" -> 6 [] c = "7" -> 7
      [] c = "8" -> 8 [] c = "9" -> 9

\* characters outside ASCII, written by their code points: e with acute
\* accent and the Arabic-Indic digit three take two bytes in UTF-8, the
\* euro sign three
TwoBytes == {"U+00E9", "U+0663"}

ThreeBytes == {"U+20AC"}

\* char::is_numeric
IsNumeric(c) == c \in Digits \cup {"U+0663"}

\* char::len_utf8 : the bytes String::remove(0) takes off the input
LenUtf8(c) == IF c \in TwoBytes THEN 2 ELSE IF c \in ThreeBytes THEN 3 ELSE 1

\* the MathToken variants; every token carries its byte offset
Tok(k, pos) == [k |-> k, pos |-> pos, v |-> F(0), ch |-> ""]

Num(pos, v) == [k |-> "Num", pos |-> pos, v |-> v, ch |-> ""]

Id(pos, c) == [k |-> "Id", pos |-> pos, v |-> F(0), ch |-> c]

\* the kind of the single-character tokens, "" for any other character
Trivial(c) ==
    CASE c = "+" -> "Add" [] c = "-" -> "Sub" [] c = "*" -> "Mul"
      [] c = "/" -> "Div" [] c = "^" -> "Exp" [] c = "(" -> "Open"
      [] c = ")" -> "Close" [] c = "," -> "Delim" [] c = "=" -> "Eq"
      [] c = "&" -> "Chain"
      [] c \in Lower \cup Upper -> "Id"
      [] OTHER -> ""

\* the characters the numeric loop moves into num_buf
RECURSIVE NumLexeme(_)
NumLexeme(s) ==
    IF s # <<>> /\ (IsNumeric(Head(s)) \/ Head(s) = ".")
    THEN <<Head(s)>> \o NumLexeme(Tail(s))
    ELSE <<>>

RECURSIVE DigitsValue(_, _)
DigitsValue(s, acc) ==
    IF s = <<>> THEN acc
    ELSE DigitsValue(Tail(s), IF acc > MaxMag THEN acc ELSE acc * 10 + DigitVal(Head(s)))

\* str::parse::<f64> on a lexeme of digits and dots
ParseF64(lex) ==
    LET dots == {i \in 1..Len(lex) : lex[i] = "."}
        ascii == \A i \in 1..Len(lex) : lex[i] \in Digits \cup {"."}
    IN  IF ~ascii \/ Cardinality(dots) > 1 \/ Len(lex) = Cardinality(dots)
        THEN [ok |-> FALSE, v |-> NaN]
        ELSE IF dots = {}
        THEN [ok |-> TRUE, v |-> Clamp(DigitsValue(lex, 0))]
        ELSE LET d == CHOOSE i \in dots : TRUE
                 whole == SubSeq(lex, 1, d - 1)
                 frac == SubSeq(lex, d + 1, Len(lex))
             IN  IF \A i \in 1..Len(frac) : frac[i] = "0"
                 THEN [ok |-> TRUE, v |-> Clamp(DigitsValue(whole, 0))]
                 ELSE [ok |-> TRUE, v |-> Frac]

\* a tokenizer that counts one byte for a lexeme of any length
OneByte(s) == 1

RECURSIVE Utf8Bytes(_)
Utf8Bytes(s) == IF s = <<>> THEN 0 ELSE LenUtf8(Head(s)) + Utf8Bytes(Tail(s))

\* a tokenizer that puts nothing between a number and a bracket
NoSyntheticMul(current, toks, idx) == toks

\* a `(` that follows a Num is preceded by a Mul at the bracket's offset
SyntheticMul(current, toks, idx) ==
    IF current = "(" /\ toks # <<>> /\ toks[Len(toks)].k = "Num"
    THEN Append(toks, Tok("Mul", idx))
    ELSE toks

\* one pass of the loop body of MathToken::try_new on a non-empty input:
\* the input, the tokens and the byte offset it leaves, or the error
ScanStep(rest, toks, idx) ==
    LET current == Head(rest)
        withMul == SyntheticMul(current, toks, idx)
        lex == NumLexeme(rest)
        num == ParseF64(lex)
    IN  IF current = " "
        THEN [ok |-> TRUE, rest |-> Tail(rest), toks |-> toks, idx |-> idx + 1]
        ELSE IF Trivial(current) = "Id"
        THEN [ok |-> TRUE, rest |-> Tail(rest),
              toks |-> Append(withMul, Id(idx, current)), idx |-> idx + 1]
        ELSE IF Trivial(current) # ""
        THEN [ok |-> TRUE, rest |-> Tail(rest),
              toks |-> Append(withMul, Tok(Trivial(current), idx)),
              idx |-> idx + 1]
        ELSE IF num.ok
        THEN [ok |-> TRUE, rest |-> SubSeq(rest, Len(lex) + 1, Len(rest)),
              toks |-> Append(withMul, Num(idx, num.v)),
              idx |-> idx + Utf8Bytes(lex)]
        ELSE [ok |-> FALSE, err |-> "unexpected token", pos |-> idx]

\* the loop of MathToken::try_new: st.rest is the input still to scan,
\* st.idx its byte offset in the original input (original_size - input.len())
RECURSIVE Scan(_)
Scan(st) ==
    IF st.ok /\ st.rest # <<>>
    THEN Scan(ScanStep(st.rest, st.toks, st.idx))
    ELSE st

\* str::is_char_boundary: b is the byte length of a prefix of the input
IsCharBoundary(in, b) ==
    \E k \in 0..Len(in) : Utf8Bytes(SubSeq(in, 1, k)) = b

\* the panic of a string slice that does not fall on a character boundary
CharBoundaryPanic == "byte index is not a char boundary"

\* util::error_message: it slices &input[..start], &input[start..=end] and
\* &input[(end + 1)..], and a slice off a character boundary panics
error_message(in, start, end) ==
    IF IsCharBoundary(in, start) /\ IsCharBoundary(in, end + 1)
    THEN [ok |-> TRUE]
    ELSE [ok |-> FALSE, panic |-> CharBoundaryPanic]

\* what MathToken::try_new returns when the loop has ended: the tokens, or
\* the error built with error_message(&original_input, current_idx, current_idx)
Scanned(in, st) ==
    IF st.ok THEN [ok |-> TRUE, tokens |-> st.toks]
    ELSE IF error_message(in, st.pos, st.pos).ok
    THEN [ok |-> FALSE, err |-> st.err, pos |-> st.pos]
    ELSE [ok |-> FALSE, err |-> CharBoundaryPanic, pos |-> st.pos]

\* MathToken::try_new
try_new(in) ==
    Scanned(in, Scan([ok |-> TRUE, rest |-> in, toks |-> <<>>, idx |-> 0]))

(***************************************************************************)
(* The AST (ops.rs) and the parser's outputs (parser.rs).                  *)
(***************************************************************************)
Bin(o, l, r) == [op |-> o, lhs |-> l, rhs |-> r]

Add(l, r) == Bin("Add", l, r)

Sub(l, r) == Bin("Sub", l, r)

Mul(l, r) == Bin("Mul", l, r)

Div(l, r) == Bin("Div", l, r)

Exp(l, r) == Bin("Exp", l, r)

Neg(x) == [op |-> "Neg", x |-> x]

NumOp(v) == [op |-> "Num", v |-> v]

Arg(c) == [op |-> "Arg", ch |-> c]

Call(name, args) == [op |-> "Call", name |-> name, args |-> args]

Function(name, args, body) == [name |-> name, args |-> args, body |-> body]

Body(op) == [kind |-> "Body", op |-> op]

Functions(funcs) == [kind |-> "Functions", funcs |-> funcs]

(***************************************************************************)
(* The intrinsic registry (eval/intrinsic/mod.rs) and the arity prototypes *)
(* the parser reads through proto().                                       *)
(***************************************************************************)
standard_intrinsics == {"sqrt", "pi", "sin", "cos", "sum"}

proto(name) ==
    CASE name = "sqrt" -> 1 [] name = "sin" -> 1 [] name = "cos" -> 1
      [] name = "pi" -> 0 [] name = "sum" -> 3

(***************************************************************************)
(* Parser (parser.rs).  Every parse function maps the token queue to       *)
(* Ok(op, queue after the call) or to an error, which `?` carries to the   *)
(* caller of Parser::parse.                                                *)
(***************************************************************************)
Ok(op, toks) == [ok |-> TRUE, op |-> op, toks |-> toks]

Err(msg) == [ok |-> FALSE, err |-> msg]

\* Parser::peek, as the kind of the first token ("" for None)
peek(toks) == IF toks = <<>> THEN "" ELSE Head(toks).k

\* Parser::pop
pop(toks) == IF toks = <<>> THEN <<>> ELSE Tail(toks)

RECURSIVE IdRun(_)
\* the name loop of parse_primary_func_call: the leading Id tokens
IdRun(toks) == IF peek(toks) = "Id" THEN 1 + IdRun(Tail(toks)) ELSE 0

RECURSIVE NameOf(_, _)
\* name_buf after pushing the characters of the first n tokens
NameOf(toks, n) == IF n = 0 THEN "" ELSE NameOf(toks, n - 1) \o toks[n].ch

RECURSIVE Collect(_, _, _)
\* the bracket-collecting loop of parse_primary, entered after the Open
Collect(toks, depth, tok_list) ==
    IF toks = <<>>
    THEN IF depth # 0 THEN Err("brackets not balanced")
         ELSE [ok |-> TRUE, list |-> tok_list, toks |-> toks]
    ELSE LET tok == Head(toks)
             rest == Tail(toks)
         IN  IF tok.k = "Close"
             THEN IF depth - 1 = 0
                  THEN IF peek(rest) = "Close"
                       THEN Err("brackets not balanced")
                       ELSE [ok |-> TRUE, list |-> tok_list, toks |-> rest]
                  ELSE Collect(rest, depth - 1, Append(tok_list, tok))
             ELSE IF tok.k = "Open"
             THEN Collect(rest, depth + 1, Append(tok_list, tok))
             ELSE Collect(rest, depth, Append(tok_list, tok))

RECURSIVE parse_primary_func_call(_)
RECURSIVE CallArgs(_, _)
RECURSIVE NextArg(_, _)
RECURSIVE parse_primary(_)
RECURSIVE parse_exp(_)
RECURSIVE ExpLoop(_, _)
RECURSIVE ExpStep(_, _)
RECURSIVE parse_term(_)
RECURSIVE TermLoop(_, _)
RECURSIVE TermStep(_, _, _)
RECURSIVE parse_expr(_)
RECURSIVE ExprLoop(_, _)
RECURSIVE ExprStep(_, _, _)
RECURSIVE parse_inner_func(_)

\* Ok(Neg(x)) of a parse result Ok(x); an error stays (the `?`)
Negated(r) == IF r.ok THEN Ok(Neg(r.op), r.toks) ELSE r

\* the argument loop of parse_primary_func_call, entered after the Open
CallArgs(toks, args) ==
    IF peek(toks) = "Close"
    THEN [ok |-> TRUE, args |-> args, toks |-> toks]
    ELSE NextArg(args, parse_expr(toks))

\* one round of the argument loop: push the argument, pop a Delim
NextArg(args, arg) ==
    IF ~arg.ok THEN arg
    ELSE CallArgs(IF peek(arg.toks) = "Delim" THEN pop(arg.toks) ELSE arg.toks,
                  Append(args, arg.op))

\* a parser that builds the Call whatever the number of arguments
ArityUnchecked(name_buf, args, toks) ==
    [ok |-> TRUE, some |-> TRUE, op |-> Call(name_buf, args), toks |-> toks]

\* the arity check of parse_primary_func_call against the standard intrinsics
ArityCheck(name_buf, args, toks) ==
    IF name_buf \in standard_intrinsics /\ proto(name_buf) # Len(args)
    THEN Err("incorrect argument count")
    ELSE [ok |-> TRUE, some |-> TRUE, op |-> Call(name_buf, args), toks |-> toks]

\* the end of parse_primary_func_call: pop the Close, check, build the Call
FinishCall(name_buf, a) ==
    IF ~a.ok THEN a ELSE ArityCheck(name_buf, a.args, pop(a.toks))

\* Result<Option<MathOp>>: some = FALSE is Ok(None)
parse_primary_func_call(toks) ==
    LET n == IdRun(toks)
        after == SubSeq(toks, n + 1, Len(toks))
    IN  IF peek(after) # "Open"
        THEN [ok |-> TRUE, some |-> FALSE, op |-> NumOp(F(0)), toks |-> after]
        ELSE FinishCall(NameOf(toks, n), CallArgs(pop(after), <<>>))

\* the Sub branch of parse_primary: what follows the `-` is negated
PrimaryNeg(toks) == Negated(parse_inner_func(pop(toks)))

\* the result of the sub-parser, with the queue after the closing bracket
InBrackets(r, rest) ==
    IF r.ok THEN Ok(r.op, rest) ELSE Err("while evaluating brackets: " \o r.err)

\* the bracket's tokens go to a sub-parser
Bracketed(c) == IF ~c.ok THEN c ELSE InBrackets(parse_inner_func(c.list), c.toks)

\* the Open branch of parse_primary
PrimaryBrackets(toks) == Bracketed(Collect(pop(toks), 1, <<>>))

\* Mul{Num(x), expr} of the Num branch
ImplicitMul(x, e) == IF e.ok THEN Ok(Mul(NumOp(x), e.op), e.toks) ELSE e

\* the Num branch of parse_primary
PrimaryNum(toks) ==
    IF peek(pop(toks)) = "Open"
    THEN ImplicitMul(Head(toks).v, parse_primary(pop(toks)))
    ELSE Ok(NumOp(Head(toks).v), pop(toks))

\* a call, or (the queue restored) one Id as an Arg
CallOrArg(before, call) ==
    IF ~call.ok THEN call
    ELSE IF call.some THEN Ok(call.op, call.toks)
    ELSE Ok(Arg(Head(before).ch), pop(before))

\* the Id branch of parse_primary
PrimaryId(toks) == CallOrArg(toks, parse_primary_func_call(toks))

\* a parse_primary that makes a number of nothing, taking no token
PrimaryNoneOk(toks) == Ok(NumOp(F(0)), toks)

\* the end of parse_primary: no branch takes the next token, or none is left
PrimaryNone(toks) == Err("expected number or open bracket")

parse_primary(toks) ==
    IF peek(toks) = "Sub" THEN PrimaryNeg(toks)
    ELSE IF peek(toks) = "Open" THEN PrimaryBrackets(toks)
    ELSE IF peek(toks) = "Num" THEN PrimaryNum(toks)
    ELSE IF peek(toks) = "Id" THEN PrimaryId(toks)
    ELSE PrimaryNone(toks)

\* the Exp arm of parse_exp's loop: lhs = Exp{lhs, rhs}
ExpStep(lhs, rhs) ==
    IF ~rhs.ok THEN rhs ELSE ExpLoop(Exp(lhs, rhs.op), rhs.toks)

\* the loop of parse_exp
ExpLoop(lhs, toks) ==
    IF peek(toks) = "Exp" THEN ExpStep(lhs, parse_primary(pop(toks)))
    ELSE Ok(lhs, toks)

\* parse_exp after its first parse_primary
ExpFrom(lhs) == IF ~lhs.ok THEN lhs ELSE ExpLoop(lhs.op, lhs.toks)

parse_exp(toks) == ExpFrom(parse_primary(toks))

\* the Mul and Div arms of parse_term's loop
TermStep(o, lhs, rhs) ==
    IF ~rhs.ok THEN rhs ELSE TermLoop(Bin(o, lhs, rhs.op), rhs.toks)

\* the loop of parse_term
TermLoop(lhs, toks) ==
    IF peek(toks) \in {"Mul", "Div"}
    THEN TermStep(peek(toks), lhs, parse_exp(pop(toks)))
    ELSE Ok(lhs, toks)

\* parse_term after its first parse_exp
TermFrom(lhs) == IF ~lhs.ok THEN lhs ELSE TermLoop(lhs.op, lhs.toks)

parse_term(toks) ==
    IF peek(toks) = "Sub" THEN Negated(parse_term(pop(toks)))
    ELSE TermFrom(parse_exp(toks))

\* the Add and Sub arms of parse_expr's loop
ExprStep(o, lhs, rhs) ==
    IF ~rhs.ok THEN rhs ELSE ExprLoop(Bin(o, lhs, rhs.op), rhs.toks)

\* a loop of parse_expr whose operands are parse_exp's, not parse_term's
ExprLoopFlat(lhs, toks) ==
    IF peek(toks) \in {"Add", "Sub"}
    THEN ExprStep(peek(toks), lhs, parse_exp(pop(toks)))
    ELSE Ok(lhs, toks)

\* the loop of parse_expr
ExprLoop(lhs, toks) ==
    IF peek(toks) \in {"Add", "Sub"}
    THEN ExprStep(peek(toks), lhs, parse_term(pop(toks)))
    ELSE Ok(lhs, toks)

\* parse_expr after its first parse_term
ExprFrom(lhs) == IF ~lhs.ok THEN lhs ELSE ExprLoop(lhs.op, lhs.toks)

parse_expr(toks) ==
    IF peek(toks) = "Sub" THEN Negated(parse_expr(pop(toks)))
    ELSE ExprFrom(parse_term(toks))

parse_inner_func(toks) ==
    IF toks = <<>> THEN Err("no input provided") ELSE parse_expr(toks)

RECURSIVE FormalArgs(_, _)
\* the formal-parameter loop of parse_full_func, entered after the Open;
\* none = TRUE is the `return Ok(None)` inside the loop
FormalArgs(toks, args) ==
    IF peek(toks) # "Id"
    THEN [none |-> FALSE, args |-> args, toks |-> toks]
    ELSE IF peek(pop(toks)) = "Delim"
    THEN FormalArgs(pop(pop(toks)), Append(args, Head(toks).ch))
    ELSE [none |-> peek(pop(toks)) # "Close", args |-> Append(args, Head(toks).ch),
          toks |-> pop(toks)]

NoFunc(toks) == [ok |-> TRUE, some |-> FALSE, out |-> Body(NumOp(F(0))), toks |-> toks]

\* Some(ParseOutput::Functions(vec![func])) of the parsed body
FuncOf(name, args, inner) ==
    IF ~inner.ok THEN inner
    ELSE [ok |-> TRUE, some |-> TRUE,
          out |-> Functions(<<Function(name, args, inner.op)>>), toks |-> inner.toks]

\* parse_full_func after the formal-parameter loop
FuncAfterArgs(toks, fa) ==
    IF fa.none \/ peek(fa.toks) # "Close" \/ peek(pop(fa.toks)) # "Eq"
    THEN NoFunc(toks)
    ELSE FuncOf(Head(toks).ch, fa.args, parse_inner_func(pop(pop(fa.toks))))

\* Result<Option<ParseOutput>>: some = FALSE is Ok(None)
parse_full_func(toks) ==
    IF peek(toks) # "Id" \/ peek(pop(toks)) # "Open" THEN NoFunc(toks)
    ELSE FuncAfterArgs(toks, FormalArgs(pop(pop(toks)), <<>>))

\* ParseOutput::Body of the parsed expression
BodyOf(b) == IF ~b.ok THEN b ELSE [ok |-> TRUE, out |-> Body(b.op), toks |-> b.toks]

\* a function definition, else (the queue restored) an expression
FuncOrBody(save, func) ==
    IF ~func.ok THEN func
    ELSE IF func.some THEN [ok |-> TRUE, out |-> func.out, toks |-> func.toks]
    ELSE BodyOf(parse_inner_func(save))

\* one `&`-separated statement
parse_expression_chain_single(toks) == FuncOrBody(toks, parse_full_func(toks))

RECURSIVE ChainLoop(_, _)
RECURSIVE ChainStep(_, _)
\* a parser that puts each further statement in front of the earlier ones
ChainStepPrepend(exprs, nxt) ==
    IF ~nxt.ok THEN nxt ELSE ChainLoop(<<nxt.out>> \o exprs, nxt.toks)

\* exprs.push(self.parse_expression_chain_single()?)
ChainStep(exprs, nxt) ==
    IF ~nxt.ok THEN nxt ELSE ChainLoop(Append(exprs, nxt.out), nxt.toks)

\* the loop of Parser::parse
ChainLoop(exprs, toks) ==
    IF peek(toks) = "Chain"
    THEN ChainStep(exprs, parse_expression_chain_single(pop(toks)))
    ELSE [ok |-> TRUE, outputs |-> exprs, toks |-> toks]

\* Parser::parse after the first statement
ChainFrom(first) == IF ~first.ok THEN first ELSE ChainLoop(<<first.out>>, first.toks)

\* Parser::parse: Ok(exprs) with the queue as the call leaves it, or an error
parse(toks) == ChainFrom(parse_expression_chain_single(toks))

(***************************************************************************)
(* AST interpreter (eval/ast_interpret.rs) and the interpreter half of the *)
(* intrinsics.  An evaluation ends in a value or in a panic, which ends    *)
(* the process.                                                            *)
(***************************************************************************)
Val(v) == [ok |-> TRUE, v |-> v]

Panic(msg) == [ok |-> FALSE, panic |-> msg]

\* index of the first element of seq that satisfies name = n, 0 for none
IndexOfName(seq, n) ==
    IF \E i \in 1..Len(seq) : seq[i].name = n
    THEN CHOOSE i \in 1..Len(seq) :
             seq[i].name = n /\ \A j \in 1..(i - 1) : seq[j].name # n
    ELSE 0

\* func.args.iter().enumerate().find(|x| x.1 == n), 0 for None
IndexOfArg(args, c) ==
    IF \E i \in 1..Len(args) : args[i] = c
    THEN CHOOSE i \in 1..Len(args) : args[i] = c /\ \A j \in 1..(i - 1) : args[j] # c
    ELSE 0

BinOp(o, a, b) ==
    CASE o = "Add" -> FAdd(a, b) [] o = "Sub" -> FSub(a, b)
      [] o = "Mul" -> FMul(a, b) [] o = "Div" -> FDiv(a, b)
      [] o = "Exp" -> FPow(a, b)

RECURSIVE eval_func(_, _, _, _, _)
RECURSIVE EvalArgs(_, _, _, _, _, _)
RECURSIVE SumInterpLoop(_, _, _, _, _, _, _, _)

\* args.iter().map(|x| self.eval_func(x, func, current_args)).collect()
EvalArgs(args, acc, func, current_args, functions, depth) ==
    IF args = <<>> THEN [ok |-> TRUE, vals |-> acc]
    ELSE LET a == eval_func(Head(args), func, current_args, functions, depth)
         IN  IF ~a.ok THEN a
             ELSE EvalArgs(Tail(args), Append(acc, a.v), func, current_args,
                           functions, depth)

\* the loop of Sum::eval_interpreter: the body runs before the test
SumInterpLoop(func, i, stop, step, sum, functions, iter, depth) ==
    IF iter >= MaxIter THEN Panic("sum does not terminate")
    ELSE LET r == eval_func(func.body, func, <<i>>, functions, depth + 1)
         IN  IF ~r.ok THEN r
             ELSE LET sum1 == FAdd(sum, r.v)
                      i1 == FAdd(i, step)
                  IN  IF FGt(i1, stop) THEN Val(sum1)
                      ELSE SumInterpLoop(func, i1, stop, step, sum1, functions,
                                         iter + 1, depth)

\* the function Sum::eval_interpreter iterates: ast.functions.last()
SumTargetInterp(functions) == Len(functions)

\* Sum::eval_interpreter
SumInterp(functions, args, depth) ==
    IF Len(args) = 3 THEN Panic("too many arguments passed into Sum function")
    ELSE IF Len(args) < 3 THEN Panic("index out of bounds")
    ELSE IF SumTargetInterp(functions) = 0
    THEN Panic("could not find last function for sum function")
    ELSE LET func == functions[SumTargetInterp(functions)]
         IN  IF Len(func.args) = 1 THEN Panic("last function takes too many argument")
             ELSE SumInterpLoop(func, args[1], args[2], args[3], F(0), functions,
                                0, depth)

\* Sqrt, Sin and Cos ::eval_interpreter
UnaryInterp(name, args) ==
    IF Len(args) = 1 THEN Panic("too many arguments passed into " \o name \o " function")
    ELSE IF args = <<>> THEN Panic("index out of bounds")
    ELSE Val(CASE name = "sqrt" -> FSqrt(args[1])
               [] name = "sin" -> FSin(args[1])
               [] name = "cos" -> FCos(args[1]))

\* Pi::eval_interpreter
PiInterp(args) ==
    IF args = <<>> THEN Panic("too many arguments passed into pi function")
    ELSE Val(PI)

\* IntrinsicFunction::eval_interpreter of the intrinsic registered as name
eval_interpreter(name, functions, args, depth) ==
    IF name = "sum" THEN SumInterp(functions, args, depth)
    ELSE IF name = "pi" THEN PiInterp(args)
    ELSE UnaryInterp(name, args)

\* the Call arm of eval_func on a name that is no user function
CallIntrinsicInterp(ops, func, current_args, functions, depth) ==
    IF ops.name \in standard_intrinsics
    THEN LET a == EvalArgs(ops.args, <<>>, func, current_args, functions, depth)
         IN  IF ~a.ok THEN a
             ELSE eval_interpreter(ops.name, functions, a.vals, depth)
    ELSE Panic("Could not find function")

\* the Call arm of eval_func on a user function: `func` is rebound to the
\* callee before the arguments are evaluated
CallUserInterp(ops, callee, current_args, functions, depth) ==
    IF depth >= MaxDepth THEN Panic("stack overflow")
    ELSE LET a == EvalArgs(ops.args, <<>>, callee, current_args, functions, depth)
         IN  IF ~a.ok THEN a
             ELSE eval_func(callee.body, callee, a.vals, functions, depth + 1)

\* the Arg arm of eval_func
ArgInterp(ops, func, current_args) ==
    LET index == IndexOfArg(func.args, ops.ch)
    IN  IF index = 0
        THEN Panic("Argument specified in function body was not passed in function call")
        ELSE IF index > Len(current_args) THEN Panic("Could not find argument")
        ELSE Val(current_args[index])

\* AstInterpreter::eval_func
eval_func(ops, func, current_args, functions, depth) ==
    IF ops.op \in {"Add", "Sub", "Mul", "Div", "Exp"}
    THEN LET l == eval_func(ops.lhs, func, current_args, functions, depth)
         IN  IF ~l.ok THEN l
             ELSE LET r == eval_func(ops.rhs, func, current_args, functions, depth)
                  IN  IF ~r.ok THEN r ELSE Val(BinOp(ops.op, l.v, r.v))
    ELSE IF ops.op = "Num" THEN Val(ops.v)
    ELSE IF ops.op = "Neg"
    THEN LET x == eval_func(ops.x, func, current_args, functions, depth)
         IN  IF ~x.ok THEN x ELSE Val(FNeg(x.v))
    ELSE IF ops.op = "Call"
    THEN LET i == IndexOfName(functions, ops.name)
         IN  IF i = 0
             THEN CallIntrinsicInterp(ops, func, current_args, functions, depth)
             ELSE CallUserInterp(ops, functions[i], current_args, functions, depth)
    ELSE ArgInterp(ops, func, current_args)

\* an install loop that pushes every function, redefinitions included
InstallPush(functions, funcs, changed) ==
    [functions |-> functions \o funcs, changed |-> changed]

RECURSIVE Install(_, _, _)
\* the install loop shared by AstInterpreter::eval and Jit::eval: a function
\* of the same name is overwritten in place, any other is pushed; changed
\* collects the names that were overwritten
Install(functions, funcs, changed) ==
    IF funcs = <<>> THEN [functions |-> functions, changed |-> changed]
    ELSE LET func == Head(funcs)
             i == IndexOfName(functions, func.name)
         IN  IF i # 0
             THEN Install([functions EXCEPT ![i] = func], Tail(funcs),
                          Append(changed, func.name))
             ELSE Install(Append(functions, func), Tail(funcs), changed)

Response(kind, v, msg) == [kind |-> kind, v |-> v, msg |-> msg]

NoResponse == Response("None", F(0), "")

\* AstInterpreter::eval: the function list and the response it leaves
AstEvalResult(functions, ops) ==
    IF ops.kind = "Body"
    THEN LET r == eval_func(ops.op, Function("", <<>>, ops.op), <<>>, functions, 0)
         IN  [functions |-> functions,
              resp |-> IF r.ok THEN Response("Value", r.v, "")
                       ELSE Response("Panic", F(0), r.panic)]
    ELSE [functions |-> Install(functions, ops.funcs, <<>>).functions,
          resp |-> Response("Ok", F(0), "")]

(***************************************************************************)
(* JIT code generator and session (eval/llvm.rs) and the JIT half of the   *)
(* intrinsics.  A module is the sequence of its functions in the order     *)
(* they were added, each [name, nparams, body] with body the IR tree that  *)
(* build_block emitted.  The optimization passes keep the meaning of the   *)
(* IR and are not modelled.                                                *)
(***************************************************************************)
None == [some |-> FALSE, module |-> <<>>]

Some(m) == [some |-> TRUE, module |-> m]

Built(ir) == [ok |-> TRUE, ir |-> ir]

\* an outcome the build does not define (IR that calls with a wrong signature)
Undefined == Panic("undefined behaviour")

\* Module::add_function: LLVM renames a function whose name is taken
UniqueName(module, name) ==
    IF IndexOfName(module, name) = 0 THEN name ELSE name \o ".1"

\* the function Sum::gen_jit iterates: the last entry that is not _repl
SumTargetJit(functions) ==
    IF \E i \in 1..Len(functions) : functions[i].name # "_repl"
    THEN CHOOSE i \in 1..Len(functions) :
             /\ functions[i].name # "_repl"
             /\ \A j \in (i + 1)..Len(functions) : functions[j].name = "_repl"
    ELSE 0

RECURSIVE build_block(_, _, _, _)
RECURSIVE BuildArgs(_, _, _, _, _)

\* args.iter().map(|x| self.build_block(x, gen)).collect()
BuildArgs(args, acc, func, module, functions) ==
    IF args = <<>> THEN [ok |-> TRUE, irs |-> acc]
    ELSE LET a == build_block(Head(args), func, module, functions)
         IN  IF ~a.ok THEN a
             ELSE BuildArgs(Tail(args), Append(acc, a.ir), func, module, functions)

\* CodeGen::call_llvm_intrinsic
call_llvm_intrinsic(name, args, func, module, functions) ==
    LET a == BuildArgs(args, <<>>, func, module, functions)
    IN  IF ~a.ok THEN a ELSE Built([op |-> "LlvmCall", name |-> name, args |-> a.irs])

\* Sqrt, Sin and Cos ::gen_jit
UnaryJit(name, args, func, module, functions) ==
    IF Len(args) = 1 THEN Panic("too many arguments passed into " \o name \o " function")
    ELSE IF args = <<>> THEN Panic("index out of bounds")
    ELSE call_llvm_intrinsic("llvm." \o name \o ".f64", <<args[1]>>, func, module,
                             functions)

\* Pi::gen_jit
PiJit(args) ==
    IF args = <<>> THEN Panic("too many arguments passed into pi function")
    ELSE Built(NumOp(PI))

\* Sum::gen_jit
SumJit(args, func, module, functions) ==
    IF Len(args) = 3 THEN Panic("too many arguments passed into Sum function")
    ELSE IF Len(args) < 3 THEN Panic("called unwrap on None")
    ELSE LET a == BuildArgs(SubSeq(args, 1, 3), <<>>, func, module, functions)
             t == SumTargetJit(functions)
             m == IF t = 0 THEN 0 ELSE IndexOfName(module, functions[t].name)
         IN  IF ~a.ok THEN a
             ELSE IF m = 0 THEN Panic("could not find last function for sum function")
             ELSE IF module[m].nparams = 1
             THEN Panic("last function has an incorrect number of arguments")
             ELSE Built([op |-> "SumLoop", target |-> module[m].name,
                         start |-> a.irs[1], stop |-> a.irs[2], step |-> a.irs[3]])

\* IntrinsicFunction::gen_jit of the intrinsic registered as name
gen_jit(name, args, func, module, functions) ==
    IF name = "sum" THEN SumJit(args, func, module, functions)
    ELSE IF name = "pi" THEN PiJit(args)
    ELSE UnaryJit(name, args, func, module, functions)

\* the Call arm of build_block; CodeGen::get_function looks in the module
\* first and in the intrinsics second
CallJit(ops, func, module, functions) ==
    IF IndexOfName(module, ops.name) # 0
    THEN LET a == BuildArgs(ops.args, <<>>, func, module, functions)
         IN  IF ~a.ok THEN a
             ELSE Built([op |-> "CallFn", target |-> ops.name, args |-> a.irs])
    ELSE IF ops.name \in standard_intrinsics
    THEN gen_jit(ops.name, ops.args, func, module, functions)
    ELSE Panic("could not find function")

\* CodeGen::build_block for the function func, in a module that already
\* holds func's declaration
build_block(ops, func, module, functions) ==
    IF ops.op \in {"Add", "Sub", "Mul", "Div", "Exp"}
    THEN LET l == build_block(ops.lhs, func, module, functions)
         IN  IF ~l.ok THEN l
             ELSE LET r == build_block(ops.rhs, func, module, functions)
                  IN  IF ~r.ok THEN r ELSE Built(Bin(ops.op, l.ir, r.ir))
    ELSE IF ops.op = "Num" THEN Built(NumOp(ops.v))
    ELSE IF ops.op = "Neg"
    THEN LET x == build_block(ops.x, func, module, functions)
         IN  IF ~x.ok THEN x ELSE Built(Neg(x.ir))
    ELSE IF ops.op = "Call" THEN CallJit(ops, func, module, functions)
    ELSE LET index == IndexOfArg(func.args, ops.ch)
         IN  IF index = 0 THEN Panic("could not find argument")
             ELSE Built([op |-> "Param", index |-> index])

\* CodeGen::compile: declare the function, then build its body
compile(module, func, functions) ==
    LET llvm_name == UniqueName(module, func.name)
        declared == Append(module, [name |-> llvm_name, nparams |-> Len(func.args),
                                    body |-> NumOp(F(0))])
        b == build_block(func.body, func, declared, functions)
    IN  IF ~b.ok THEN b
        ELSE [ok |-> TRUE, module |-> [declared EXCEPT ![Len(declared)].body = b.ir]]

RECURSIVE CompileAll(_, _, _, _)
\* the compile loop of Jit::eval over self.functions, from index i on
CompileAll(functions, i, changed_functions, module) ==
    IF i > Len(functions) THEN [ok |-> TRUE, module |-> module]
    ELSE IF \/ \E k \in 1..Len(changed_functions) : changed_functions[k] = functions[i].name
            \/ IndexOfName(module, functions[i].name) = 0
    THEN LET c == compile(module, functions[i], functions)
         IN  IF ~c.ok THEN c
             ELSE CompileAll(functions, i + 1, changed_functions, c.module)
    ELSE CompileAll(functions, i + 1, changed_functions, module)

RECURSIVE exec(_, _, _, _)
RECURSIVE ExecArgs(_, _, _, _, _)
RECURSIVE SumJitLoop(_, _, _, _, _, _, _, _)

ExecArgs(irs, acc, params, module, depth) ==
    IF irs = <<>> THEN [ok |-> TRUE, vals |-> acc]
    ELSE LET a == exec(Head(irs), params, module, depth)
         IN  IF ~a.ok THEN a
             ELSE ExecArgs(Tail(irs), Append(acc, a.v), params, module, depth)

\* the machine code of a call to the module's function `target`
ExecCall(target, vals, module, depth) ==
    LET f == module[IndexOfName(module, target)]
    IN  IF f.nparams # Len(vals) THEN Undefined
        ELSE IF depth >= MaxDepth THEN Panic("stack overflow")
        ELSE exec(f.body, vals, module, depth + 1)

\* the loop and exit blocks Sum::gen_jit emits
SumJitLoop(target, counter, stop, step, sum, module, iter, depth) ==
    IF iter >= MaxIter THEN Panic("sum does not terminate")
    ELSE LET ret == ExecCall(target, <<counter>>, module, depth)
         IN  IF ~ret.ok THEN ret
             ELSE LET new_sum == FAdd(ret.v, sum)
                      new_counter == FAdd(counter, step)
                  IN  IF FOle(new_counter, stop)
                      THEN SumJitLoop(target, new_counter, stop, step, new_sum,
                                      module, iter + 1, depth)
                      ELSE Val(new_sum)

\* running the machine code of an IR tree with the given parameter values
exec(ir, params, module, depth) ==
    IF ir.op \in {"Add", "Sub", "Mul", "Div", "Exp"}
    THEN LET l == exec(ir.lhs, params, module, depth)
         IN  IF ~l.ok THEN l
             ELSE LET r == exec(ir.rhs, params, module, depth)
                  IN  IF ~r.ok THEN r ELSE Val(BinOp(ir.op, l.v, r.v))
    ELSE IF ir.op = "Num" THEN Val(ir.v)
    ELSE IF ir.op = "Neg"
    THEN LET x == exec(ir.x, params, module, depth)
         IN  IF ~x.ok THEN x ELSE Val(FNeg(x.v))
    ELSE IF ir.op = "Param" THEN Val(params[ir.index])
    ELSE IF ir.op = "CallFn"
    THEN LET a == ExecArgs(ir.args, <<>>, params, module, depth)
         IN  IF ~a.ok THEN a ELSE ExecCall(ir.target, a.vals, module, depth)
    ELSE IF ir.op = "LlvmCall"
    THEN LET a == ExecArgs(ir.args, <<>>, params, module, depth)
         IN  IF ~a.ok THEN a
             ELSE Val(CASE ir.name = "llvm.sqrt.f64" -> FSqrt(a.vals[1])
                        [] ir.name = "llvm.sin.f64" -> FSin(a.vals[1])
                        [] ir.name = "llvm.cos.f64" -> FCos(a.vals[1]))
    ELSE LET a == ExecArgs(<<ir.start, ir.stop, ir.step>>, <<>>, params, module, depth)
         IN  IF ~a.ok THEN a
             ELSE SumJitLoop(ir.target, a.vals[1], a.vals[2], a.vals[3], F(0),
                             module, 0, depth)

\* the functions Jit::eval installs and whether the last one is executed
Wrapped(ops) ==
    IF ops.kind = "Body"
    THEN [functions |-> <<Function("_repl", <<>>, ops.op)>>, exec_last |-> TRUE]
    ELSE [functions |-> ops.funcs, exec_last |-> FALSE]

\* a Jit::eval that leaves an earlier _repl in the list
RetainedAll(functions) == functions

\* self.functions.retain(|x| x.name != "_repl")
Retained(functions) == SelectSeq(functions, LAMBDA x : x.name # "_repl")

\* the end of Jit::eval for a Body: look the last function up and call it
ExecLast(functions, module) ==
    LET last == functions[Len(functions)].name
        i == IndexOfName(module, last)
    IN  IF i = 0 THEN Panic("called unwrap on an Err value")
        ELSE IF module[i].nparams # 0 THEN Undefined
        ELSE exec(module[i].body, <<>>, module, 0)

\* a rule that writes the module to the cache whatever was replaced
CacheAlways(changed_functions, module) == Some(module)

\* the end of Jit::eval for Functions: the caching rule
CacheRule(changed_functions, module) ==
    IF changed_functions = <<>> THEN Some(module) ELSE None

\* a failure that puts the function list back as it was on entry
RolledBack(old, new, cached) == [functions |-> old, cached |-> cached]

\* the fields of the Jit when a stage of Jit::eval panics: the functions as
\* the install loop left them, the cache as it was on entry
Unwound(old, new, cached) == [functions |-> new, cached |-> cached]

\* Jit::eval: the function list, the cache and the response it leaves, and
\* the module it built with the names it replaced
JitEvalResult(functions, cached, ops) ==
    LET w == Wrapped(ops)
        inst == Install(Retained(functions), w.functions, <<>>)
        codegen == IF cached.some THEN cached.module ELSE <<>>
        c == CompileAll(inst.functions, 1, inst.changed, codegen)
        r == ExecLast(inst.functions, c.module)
        u == Unwound(functions, inst.functions, cached)
    IN  IF ~c.ok
        THEN [functions |-> u.functions, cached |-> u.cached,
              resp |-> Response("Panic", F(0), c.panic),
              built |-> [module |-> codegen, changed |-> inst.changed]]
        ELSE IF w.exec_last /\ ~r.ok
        THEN [functions |-> u.functions, cached |-> u.cached,
              resp |-> Response("Panic", F(0), r.panic),
              built |-> [module |-> c.module, changed |-> inst.changed]]
        ELSE IF w.exec_last
        THEN [functions |-> inst.functions, cached |-> cached,
              resp |-> Response("Value", r.v, ""),
              built |-> [module |-> c.module, changed |-> inst.changed]]
        ELSE [functions |-> inst.functions,
              cached |-> CacheRule(inst.changed, c.module),
              resp |-> Response("Ok", F(0), ""),
              built |-> [module |-> c.module, changed |-> inst.changed]]

(***************************************************************************)
(* The driver: a line is read, tokenized and parsed, and its ParseOutputs  *)
(* are dispatched in order, each to the interpreter and then to the JIT.   *)
(***************************************************************************)
\* the outcomes of an evaluation whose machine code is undefined: a crash,
\* or whatever double the call leaves in the result register
UndefinedResponses ==
    {Response("Panic", F(0), "undefined behaviour"),
     Response("Value", F(0), ""), Response("Value", NaN, "")}

Fresh ==
    /\ lexed = [ok |-> FALSE, err |-> "", pos |-> 0]
    /\ tokens = <<>>
    /\ parsed = Err("")
    /\ pending = <<>>
    /\ stmt = Body(NumOp(F(0)))
    /\ ast_functions = <<>>
    /\ ast_resp = NoResponse
    /\ ast_alive = TRUE
    /\ jit_functions = <<>>
    /\ cached_module = None
    /\ jit_resp = NoResponse
    /\ jit_alive = TRUE
    /\ installed = <<>>
    /\ jit_built = [module |-> <<>>, changed |-> <<>>]

\* MathToken::try_new panicked: the process is gone
Aborted(lex) == ~lex.ok /\ lex.err = CharBoundaryPanic

\* Parser::new: tokenize the line; a panic of the tokenizer ends the
\* process, and with it both backends
New ==
    /\ pc = "new"
    /\ lexed' = try_new(input)
    /\ tokens' = IF lexed'.ok THEN lexed'.tokens ELSE <<>>
    /\ pc' = IF lexed'.ok THEN "parse" ELSE "read"
    /\ ast_alive' = (ast_alive /\ ~Aborted(lexed'))
    /\ jit_alive' = (jit_alive /\ ~Aborted(lexed'))
    /\ UNCHANGED <<input, parsed, pending, stmt, ast_functions, ast_resp,
                   jit_functions, cached_module, jit_resp, installed, jit_built,
                   lines>>

\* Parser::parse on the token queue; an Ok leaves the queue as parse left it
Parse ==
    /\ pc = "parse"
    /\ LET r == parse(tokens)
       IN  /\ parsed' = IF r.ok THEN [ok |-> TRUE, outputs |-> r.outputs]
                        ELSE Err(r.err)
           /\ tokens' = IF r.ok THEN r.toks ELSE <<>>
           /\ pending' = IF r.ok THEN r.outputs ELSE <<>>
           /\ pc' = IF r.ok THEN "ast" ELSE "read"
    /\ UNCHANGED <<input, lexed, stmt, ast_functions, ast_resp, ast_alive,
                   jit_functions, cached_module, jit_resp, jit_alive, installed,
                   jit_built, lines>>

\* the next ParseOutput goes to AstInterpreter::eval
AstEval ==
    /\ pc = "ast"
    /\ pending # <<>>
    /\ stmt' = Head(pending)
    /\ pending' = Tail(pending)
    /\ installed' = IF Head(pending).kind = "Functions"
                    THEN installed \o Head(pending).funcs
                    ELSE installed
    /\ LET r == AstEvalResult(ast_functions, Head(pending))
       IN  IF ast_alive
           THEN /\ ast_functions' = r.functions
                /\ ast_resp' = r.resp
                /\ ast_alive' = (r.resp.kind # "Panic")
           ELSE /\ ast_resp' = NoResponse
                /\ UNCHANGED <<ast_functions, ast_alive>>
    /\ pc' = "jit"
    /\ UNCHANGED <<input, lexed, tokens, parsed, jit_functions, cached_module,
                   jit_resp, jit_alive, jit_built, lines>>

\* the same ParseOutput goes to Jit::eval
JitEval ==
    /\ pc = "jit"
    /\ LET r == JitEvalResult(jit_functions, cached_module, stmt)
       IN  IF jit_alive
           THEN /\ jit_functions' = r.functions
                /\ cached_module' = r.cached
                /\ jit_resp' \in IF r.resp.msg = Undefined.panic
                                 THEN UndefinedResponses
                                 ELSE {r.resp}
                /\ jit_alive' = (jit_resp'.kind # "Panic")
                /\ jit_built' = r.built
           ELSE /\ jit_resp' = NoResponse
                /\ UNCHANGED <<jit_functions, cached_module, jit_alive, jit_built>>
    /\ pc' = IF pending = <<>> THEN "read" ELSE "ast"
    /\ UNCHANGED <<input, lexed, tokens, parsed, pending, stmt, ast_functions,
                   ast_resp, ast_alive, installed, lines>>

\* the REPL reads the next line (main.rs hands it to Parser::new)
ReadLine(line) ==
    /\ pc = "read"
    /\ lines < MaxLines
    /\ ast_alive \/ jit_alive
    /\ input' = line
    /\ lines' = lines + 1
    /\ pc' = "new"
    /\ UNCHANGED <<lexed, tokens, parsed, pending, stmt, ast_functions, ast_resp,
                   ast_alive, jit_functions, cached_module, jit_resp, jit_alive,
                   installed, jit_built>>

(***************************************************************************)
(* Inputs.  A text is the sequence of the characters of a line.            *)
(***************************************************************************)
\* longest chain of statements in one line
MaxChain == 3
\* most arguments written in a call of an intrinsic
MaxArgs == 4
\* largest start and stop of a sum call
MaxStop == 3

N(n) == NumOp(F(n))

\* primaries, each with the AST the grammar gives it
Operands ==
    {[text |-> <<"2">>, op |-> N(2)],
     [text |-> <<"3">>, op |-> N(3)],
     [text |-> <<"x">>, op |-> Arg("x")],
     [text |-> <<"(", "1", "+", "2", ")">>, op |-> Add(N(1), N(2))],
     [text |-> <<"f", "(", "1", ")">>, op |-> Call("f", <<N(1)>>)]}

\* a^b^c
ExpText(a, b, c) == a.text \o <<"^">> \o b.text \o <<"^">> \o c.text

\* -a+b
NegAddText(a, b) == <<"-">> \o a.text \o <<"+">> \o b.text

\* a*-b+c
MulNegAddText(a, b, c) == a.text \o <<"*", "-">> \o b.text \o <<"+">> \o c.text

\* statements, each with the ParseOutput the grammar gives it
Stmts ==
    {[text |-> <<"f", "(", "x", ")", "=", "x", "+", "1">>,
      out |-> Functions(<<Function("f", <<"x">>, Add(Arg("x"), N(1)))>>)],
     [text |-> <<"f", "(", "x", ")", "=", "x">>,
      out |-> Functions(<<Function("f", <<"x">>, Arg("x"))>>)],
     [text |-> <<"g", "(", "y", ",", "x", ")", "=", "f", "(", "x", ")">>,
      out |-> Functions(<<Function("g", <<"y", "x">>, Call("f", <<Arg("x")>>))>>)],
     [text |-> <<"f", "(", "3", ")">>, out |-> Body(Call("f", <<N(3)>>))],
     [text |-> <<"f", "(", "1", ")">>, out |-> Body(Call("f", <<N(1)>>))],
     [text |-> <<"g", "(", "1", ",", "2", ")">>, out |-> Body(Call("g", <<N(1), N(2)>>))],
     [text |-> <<"1", "+", "2", "*", "3">>, out |-> Body(Add(N(1), Mul(N(2), N(3))))]}

\* the chains s1 & ... & sn of at most MaxChain statements
Chains == UNION {[1..n -> Stmts] : n \in 1..MaxChain}

RECURSIVE ChainText(_)
ChainText(chain) ==
    IF Len(chain) = 1 THEN chain[1].text
    ELSE chain[1].text \o <<" ", "&", " ">> \o ChainText(Tail(chain))

ChainOutputs(chain) == [i \in 1..Len(chain) |-> chain[i].out]

\* complete statements, and tokens that no statement can take in after them
TrailBases == {<<"1">>, <<"1", "+", "2">>, <<"f", "(", "x", ")", "=", "x">>, <<"f", "(", "1", ")">>}

TrailJunk == {<<" ", "2">>, <<" ", "3">>, <<")">>, <<" ", "x">>}

\* the text of an intrinsic's name
NameText(name) ==
    CASE name = "sqrt" -> <<"s", "q", "r", "t">>
      [] name = "sin" -> <<"s", "i", "n">>
      [] name = "cos" -> <<"c", "o", "s">>
      [] name = "pi" -> <<"p", "i">>
      [] name = "sum" -> <<"s", "u", "m">>

DigitText(n) ==
    CASE n = 0 -> "0" [] n = 1 -> "1" [] n = 2 -> "2" [] n = 3 -> "3" [] n = 4 -> "4"
      [] n = 5 -> "5" [] n = 6 -> "6" [] n = 7 -> "7" [] n = 8 -> "8" [] n = 9 -> "9"

RECURSIVE ArgsText(_)
\* the arguments 1,2,...,k of a call
ArgsText(k) ==
    IF k = 0 THEN <<>>
    ELSE IF k = 1 THEN <<DigitText(1)>>
    ELSE ArgsText(k - 1) \o <<",", DigitText(k)>>

\* name(1,...,k)
IntrinsicText(name, k) == NameText(name) \o <<"(">> \o ArgsText(k) \o <<")">>

\* g(x)=x & sum(a,b,c)
SumText(a, b, c) ==
    <<"g", "(", "x", ")", "=", "x", " ", "&", " ", "s", "u", "m", "(">> \o <<DigitText(a), ",", DigitText(b), ",", DigitText(c), ")">>

\* further lines of the specification's scenarios
Scenarios ==
    {<<"1", " ", "2">>,
     <<"g", "(", "x", ")", "=", "x", " ", "&", " ", "s", "u", "m", "(", "1", ",", "1", "0", ",", "1", ")">>,
     <<"c", "o", "s", "(", "0", ")", " ", "+", " ", "s", "i", "n", "(", "0", ")">>,
     <<"s", "q", "r", "t", "(", "2", ")">>,
     <<"s", "q", "r", "t", "(", "4", ")">>,
     <<"f", "(", "x", ")", "=", "x", " ", "&", " ", "f", "(", "x", ")", "=", "x", "+", "1", " ", "&", " ", "f", "(", "1", ")">>,
     <<"1", ".", "2", ".", "3">>}

\* the intrinsic pi written without brackets
PiLine == <<"p", "i">>

\* names of one, two and three letters
Names == {<<"f">>, <<"a", "b">>, <<"a", "b", "c">>}

RECURSIVE NameString(_)
\* the letters of a name as one string
NameString(name) ==
    IF name = <<>> THEN "" ELSE Head(name) \o NameString(Tail(name))

\* name(x)=x
DefText(name) == name \o <<"(", "x", ")", "=", "x">>

\* f(x)=2x
HalfLine == <<"f", "(", "x", ")", "=", "2", "x">>

\* f(x)=2x & f(k); k = 0 stands for the definition alone
ScaleText(k) ==
    IF k = 0 THEN HalfLine
    ELSE HalfLine \o <<" ", "&", " ", "f", "(", DigitText(k), ")">>

\* expressions that go inside brackets, each with the AST the grammar gives it
Inner ==
    Operands \cup {[text |-> <<"3", "+", "4">>, op |-> Add(N(3), N(4))],
                   [text |-> <<"1", "+", "2">>, op |-> Add(N(1), N(2))]}

\* n(e)
JuxtText(n, e) == <<DigitText(n), "(">> \o e.text \o <<")">>

\* a+b*c
AddMulText(a, b, c) == a.text \o <<"+">> \o b.text \o <<"*">> \o c.text

\* -a^b
NegExpText(a, b) == <<"-">> \o a.text \o <<"^">> \o b.text

\* -(2+3)^2
NegSquareLine == <<"-", "(", "2", "+", "3", ")", "^", "2">>

\* f((e))
NestedArgText(e) == <<"f", "(", "(">> \o e.text \o <<")", ")">>

\* the lines a one-line session is run on
\* lines the tokenizer does not accept: a character that starts no token,
\* alone, after tokens and before more input, in one byte or in several, and
\* numeric lexemes that are no number
Malformed ==
    {<<"#">>, <<"1", "#">>, <<"1", " ", "+", " ", "$", "2">>,
     <<"1", ".", "2", ".", "3">>, <<"2", "+", "1", ".", ".">>, <<".">>,
     <<"U+00E9">>, <<"1", "+", "U+20AC">>, <<"x", "U+00E9", "2">>,
     <<"U+20AC", "U+00E9">>, <<"2", "U+0663">>, <<"U+0663", "1">>}

\* lines that end inside a call, a bracket, a definition or a chain
Unterminated ==
    {<<"f", "(", "1">>, <<"f", "(">>, <<"f", "(", "1", ",">>,
     <<"f", "(", "1", ",", "2">>, <<"s", "q", "r", "t", "(">>,
     <<"f", "(", "g", "(", "1", ")">>, <<"(", "1", "+", "2">>, <<"(">>,
     <<"2", "(", "3">>, <<"f", "(", "x", ")", "=">>, <<"f", "(", "x", ",">>,
     <<"1", " ", "&">>, <<"1", " ", "&", " ", "f", "(">>, <<"1", "+">>,
     <<"2", "^">>, <<"-">>}

LineInputs ==
    {ExpText(a, b, c) : a \in Operands, b \in Operands, c \in Operands}
    \cup {NegAddText(a, b) : a \in Operands, b \in Operands}
    \cup {MulNegAddText(a, b, c) : a \in Operands, b \in Operands, c \in Operands}
    \cup {ChainText(ch) : ch \in Chains}
    \cup {b \o j : b \in TrailBases, j \in TrailJunk}
    \cup {IntrinsicText(n, k) : n \in standard_intrinsics, k \in 0..MaxArgs}
    \cup {SumText(a, b, c) : a \in 1..MaxStop, b \in 1..MaxStop, c \in 1..2}
    \cup Scenarios
    \cup {PiLine, HalfLine, NegSquareLine}
    \cup {DefText(name) : name \in Names}
    \cup {ScaleText(k) : k \in 0..MaxStop}
    \cup {JuxtText(n, e) : n \in 1..MaxStop, e \in Inner}
    \cup {AddMulText(a, b, c) : a \in Operands, b \in Operands, c \in Operands}
    \cup {NegExpText(a, b) : a \in Operands, b \in Operands}
    \cup {NestedArgText(e) : e \in Inner}
    \cup Malformed
    \cup Unterminated

\* the lines a session of several lines draws from
SessionLines ==
    {<<"f", "(", "x", ")", "=", "x">>,
     <<"f", "(", "x", ")", "=", "g", "(", "x", ")">>,
     <<"g", "(", "x", ")", "=", "2", "*", "x">>,
     <<"g", "(", "y", ",", "x", ")", "=", "f", "(", "x", ")">>,
     <<"f", "(", "3", ")">>,
     <<"g", "(", "1", ",", "2", ")">>,
     <<"s", "u", "m", "(", "1", ",", "3", ",", "1", ")">>,
     <<"h", "(", "1", ")">>,
     <<"f", "(", "x", ")", "=", "x", " ", "&", " ", "f", "(", "x", ")", "=", "x", "+", "1", " ", "&", " ", "f", "(", "1", ")">>}

(***************************************************************************)
(* Properties.                                                             *)
(***************************************************************************)
\* Parser::parse has returned for the line
Parsed == pc \in {"ast", "jit", "read"}

\* Parser::parse returned Ok(outputs)
ParsedAs(outputs) == parsed = [ok |-> TRUE, outputs |-> outputs]

Value(n) == Response("Value", F(n), "")

\* both backends have answered the last statement of the line with Value(n)
BothValue(n) == ast_resp = Value(n) /\ jit_resp = Value(n)

\* C1: the exponent operator is right-associative: every line a^b^c parses
\* to Exp{a, Exp{b, c}}, and 2^3^2 evaluates to 512.
C1_ExpRightAssociative ==
    /\ \A a \in Operands, b \in Operands, c \in Operands :
           (Parsed /\ input = ExpText(a, b, c))
               => ParsedAs(<<Body(Exp(a.op, Exp(b.op, c.op)))>>)
    /\ (pc = "read" /\ input = <<"2", "^", "3", "^", "2">>) => BothValue(512)

\* C2: unary minus negates only the operand that follows it: every line
\* -a+b parses to Add{Neg(a), b} and every line a*-b+c parses to
\* Add{Mul{a, Neg(b)}, c}.
C2_NegBindsTightest ==
    /\ \A a \in Operands, b \in Operands :
           (Parsed /\ input = NegAddText(a, b))
               => ParsedAs(<<Body(Add(Neg(a.op), b.op))>>)
    /\ \A a \in Operands, b \in Operands, c \in Operands :
           (Parsed /\ input = MulNegAddText(a, b, c))
               => ParsedAs(<<Body(Add(Mul(a.op, Neg(b.op)), c.op))>>)

\* C3: when Parser::parse returns Ok no token is left in the queue: tokens
\* that follow a complete statement and are no `&` make it return an error,
\* as for the lines `1 2`, `1+2)` and `f(x)=x 3`.
C3_LeftoverTokensRejected ==
    /\ (Parsed /\ parsed.ok) => tokens = <<>>
    /\ \A b \in TrailBases, j \in TrailJunk :
           (Parsed /\ input = b \o j) => ~parsed.ok

ChainExample ==
    <<"f", "(", "x", ")", "=", "x", "+", "1", " ", "&", " ", "f", "(", "3", ")">>

\* C4: a line s1 & ... & sn parses to exactly the n ParseOutputs of its
\* statements in textual order; when a Body statement is evaluated every
\* function installed by an earlier statement is in the interpreter's
\* environment; f(x)=x+1 & f(3) evaluates to 4.
C4_ChainInOrder ==
    /\ \A ch \in Chains :
           (Parsed /\ input = ChainText(ch)) => ParsedAs(ChainOutputs(ch))
    /\ (pc = "jit" /\ stmt.kind = "Body" /\ ast_resp.kind # "None")
           => \A k \in 1..Len(installed) :
                  IndexOfName(ast_functions, installed[k].name) # 0
    /\ (pc = "read" /\ input = ChainExample) => BothValue(4)

\* a chain of two statements has been parsed and evaluated: the definition
\* of the first was seen by the call of the second
C4_Witness ==
    /\ pc = "read"
    /\ input = ChainExample
    /\ Len(parsed.outputs) = 2
    /\ installed = <<Function("f", <<"x">>, Add(Arg("x"), N(1)))>>
    /\ BothValue(4)

\* the definition of name that was installed last
LatestDef(name) ==
    installed[CHOOSE i \in 1..Len(installed) :
                  /\ installed[i].name = name
                  /\ \A j \in (i + 1)..Len(installed) : installed[j].name # name]

\* functions holds one entry per name, each installed name has its entry,
\* and the entry of a user function is its latest definition
OnePerName(functions) ==
    /\ \A i \in 1..Len(functions), j \in 1..Len(functions) :
           functions[i].name = functions[j].name => i = j
    /\ \A k \in 1..Len(installed) : IndexOfName(functions, installed[k].name) # 0
    /\ \A i \in 1..Len(functions) :
           functions[i].name # "_repl"
               => /\ \E k \in 1..Len(installed) : installed[k].name = functions[i].name
                  /\ functions[i] = LatestDef(functions[i].name)

RedefinitionExample ==
    <<"f", "(", "x", ")", "=", "x", " ", "&", " ", "f", "(", "x", ")", "=", "x", "+", "1", " ", "&", " ", "f", "(", "1", ")">>

\* C5: in both backends, after every evaluation the function list holds at
\* most one entry per name and that entry is the definition installed last;
\* f(x)=x & f(x)=x+1 & f(1) evaluates to 2.
C5_OneEntryPerName ==
    /\ (ast_alive /\ pc # "ast") => OnePerName(ast_functions)
    /\ (jit_alive /\ pc \notin {"ast", "jit"}) => OnePerName(jit_functions)
    /\ (pc = "read" /\ input = RedefinitionExample)
           => /\ ast_alive => ast_resp = Value(2)
              /\ jit_alive => jit_resp = Value(2)

\* f was defined twice and called: one f is left in each list, the later one
C5_Witness ==
    /\ pc = "read"
    /\ input = RedefinitionExample
    /\ Len(installed) >= 2
    /\ BothValue(2)
    /\ \E i \in 1..Len(ast_functions) :
           ast_functions[i] = Function("f", <<"x">>, Add(Arg("x"), N(1)))
    /\ \E i \in 1..Len(jit_functions) :
           jit_functions[i] = Function("f", <<"x">>, Add(Arg("x"), N(1)))

RECURSIVE UserArithmetic(_)
\* an expression over numbers, parameters, arithmetic and user-function calls
UserArithmetic(op) ==
    IF op.op \in {"Add", "Sub", "Mul", "Div", "Exp"}
    THEN UserArithmetic(op.lhs) /\ UserArithmetic(op.rhs)
    ELSE IF op.op = "Neg" THEN UserArithmetic(op.x)
    ELSE IF op.op = "Call"
    THEN /\ op.name \notin standard_intrinsics
         /\ \A i \in 1..Len(op.args) : UserArithmetic(op.args[i])
    ELSE TRUE

\* C6: after a sequence of definitions, an expression over integer-valued
\* arithmetic and user-function calls gets Value(v) from the interpreter if
\* and only if it gets Value(v) from the JIT.
C6_BackendsAgree ==
    (/\ pc \in {"ast", "read"}
     /\ stmt.kind = "Body"
     /\ ast_resp.kind # "None"
     /\ jit_resp.kind # "None"
     /\ UserArithmetic(stmt.op)
     /\ \A k \in 1..Len(installed) : UserArithmetic(installed[k].body))
        => /\ ast_resp.kind = "Value" <=> jit_resp.kind = "Value"
           /\ ast_resp.kind = "Value" => ast_resp.v = jit_resp.v

\* the lines that hold one call of an intrinsic with the arity of its prototype
ProtoCalls ==
    {IntrinsicText(n, proto(n)) : n \in {"sqrt", "sin", "cos", "pi"}}
    \cup {SumText(a, b, c) : a \in 1..MaxStop, b \in 1..MaxStop, c \in 1..2}
    \cup {<<"s", "q", "r", "t", "(", "2", ")">>, <<"s", "q", "r", "t", "(", "4", ")">>}

\* C7: a call of a standard intrinsic with the arity of its prototype
\* evaluates to a value in the interpreter and in the JIT; sqrt(2) and
\* cos(0) + sin(0) produce values.
C7_IntrinsicCallsEvaluate ==
    /\ (pc = "read" /\ input \in ProtoCalls)
           => ast_resp.kind = "Value" /\ jit_resp.kind = "Value"
    /\ (pc = "read"
        /\ input = <<"c", "o", "s", "(", "0", ")", " ", "+", " ", "s", "i", "n", "(", "0", ")">>)
           => BothValue(1)

RECURSIVE SumOver(_, _, _)
\* the sum of i over i = start, start+step, ... while i <= stop
SumOver(start, stop, step) ==
    IF start > stop THEN 0 ELSE start + SumOver(start + step, stop, step)

\* C8: with g(x)=x as the target and step > 0, sum(start, stop, step) is the
\* sum of the i = start, start+step, ... that satisfy i <= stop, 0 when
\* start > stop; sum(1,10,1) is 55.
C8_SumOverRange ==
    /\ \A a \in 1..MaxStop, b \in 1..MaxStop, c \in 1..2 :
           (pc = "read" /\ input = SumText(a, b, c)) => BothValue(SumOver(a, b, c))
    /\ (pc = "read"
        /\ input = <<"g", "(", "x", ")", "=", "x", " ", "&", " ", "s", "u", "m", "(", "1", ",", "1", "0", ",", "1", ")">>)
           => BothValue(55)

\* C9: after definitions and redefinitions of single-argument functions,
\* the function a sum iterates is the one whose definition was installed
\* most recently.
C9_SumTargetMostRecent ==
    (/\ pc = "read"
     /\ installed # <<>>
     /\ \A k \in 1..Len(installed) : Len(installed[k].args) = 1)
        => /\ ast_alive
                  => /\ SumTargetInterp(ast_functions) # 0
                     /\ ast_functions[SumTargetInterp(ast_functions)]
                            = installed[Len(installed)]
           /\ jit_alive
                  => /\ SumTargetJit(jit_functions) # 0
                     /\ jit_functions[SumTargetJit(jit_functions)]
                            = installed[Len(installed)]

\* the arguments 1, ..., k as the parser builds them
NumArgs(k) == [i \in 1..k |-> N(i)]

\* C10: a call of a standard intrinsic whose number of arguments differs
\* from the prototype's arg_count is refused by the parser with the
\* argument-count error, and becomes a Call node only when they are equal;
\* sqrt() and sqrt(1,2) are refused.
C10_ArityChecked ==
    /\ \A n \in standard_intrinsics, k \in 0..MaxArgs :
           (Parsed /\ input = IntrinsicText(n, k))
               => IF k = proto(n)
                  THEN ParsedAs(<<Body(Call(n, NumArgs(k)))>>)
                  ELSE parsed = Err("incorrect argument count")
    /\ (Parsed /\ input \in {IntrinsicText("sqrt", 0), IntrinsicText("sqrt", 2)})
           => ~parsed.ok

\* sqrt(1,2) was refused by the parser and nothing was evaluated
C10_Witness ==
    /\ pc = "read"
    /\ input = IntrinsicText("sqrt", 2)
    /\ lexed.ok
    /\ parsed = Err("incorrect argument count")
    /\ ast_resp = NoResponse

\* C11: the bare line `pi` parses to a call of the intrinsic pi with no
\* arguments, not to the parameter p, and evaluates to the constant pi in
\* both backends.
C11_BarePi ==
    /\ (Parsed /\ input = PiLine) => ParsedAs(<<Body(Call("pi", <<>>))>>)
    /\ (pc = "read" /\ input = PiLine)
           => /\ ast_resp = Response("Value", PI, "")
              /\ jit_resp = Response("Value", PI, "")

\* C12: a definition whose name has one or more letters parses to one
\* Function named by all the letters before the `(`: ab(x)=x defines ab.
C12_LongFunctionNames ==
    \A name \in Names :
        (Parsed /\ input = DefText(name))
            => ParsedAs(<<Functions(<<Function(NameString(name), <<"x">>, Arg("x"))>>)>>)

\* C13: a number followed by a one-letter identifier is their product:
\* f(x)=2x defines f with the body Mul{Num(2), Arg(x)}, and f(k) is 2*k.
C13_NumberTimesIdentifier ==
    /\ \A k \in 0..MaxStop :
           (Parsed /\ input = ScaleText(k))
               => /\ parsed.ok
                  /\ parsed.outputs[1]
                         = Functions(<<Function("f", <<"x">>, Mul(N(2), Arg("x")))>>)
    /\ \A k \in 1..MaxStop :
           (pc = "read" /\ input = ScaleText(k)) => BothValue(2 * k)

SevenLine == <<"2", "(", "3", "+", "4", ")">>

\* C14: a number followed by `(` is a product: the tokenizer puts a Mul at
\* the bracket's offset before every Open that follows a Num, n(e) parses
\* to Mul{Num(n), e}, and 2(3+4) evaluates to 14.
C14_NumberTimesBracket ==
    /\ (pc # "new" /\ lexed.ok)
           => \A i \in 2..Len(lexed.tokens) :
                  lexed.tokens[i].k = "Open" => lexed.tokens[i - 1].k # "Num"
    /\ \A n \in 1..MaxStop, e \in Inner :
           (Parsed /\ input = JuxtText(n, e))
               => /\ SubSeq(lexed.tokens, 1, 3)
                         = <<Num(0, F(n)), Tok("Mul", 1), Tok("Open", 1)>>
                  /\ ParsedAs(<<Body(Mul(N(n), e.op))>>)
    /\ (pc = "read" /\ input = SevenLine) => BothValue(14)

\* 2(3+4) was tokenized with the Mul, parsed and evaluated
C14_Witness ==
    /\ pc = "read"
    /\ input = SevenLine
    /\ lexed.tokens[2] = Tok("Mul", 1)
    /\ ParsedAs(<<Body(Mul(N(2), Add(N(3), N(4))))>>)
    /\ BothValue(14)

\* C15: `*` binds tighter than `+` and `^` tighter than a leading minus:
\* a+b*c parses to Add{a, Mul{b, c}} and -a^b to Neg(Exp{a, b}); 1+2*3 is 7
\* and -(2+3)^2 is -25.
C15_Precedence ==
    /\ \A a \in Operands, b \in Operands, c \in Operands :
           (Parsed /\ input = AddMulText(a, b, c))
               => ParsedAs(<<Body(Add(a.op, Mul(b.op, c.op)))>>)
    /\ \A a \in Operands, b \in Operands :
           (Parsed /\ input = NegExpText(a, b))
               => ParsedAs(<<Body(Neg(Exp(a.op, b.op)))>>)
    /\ (pc = "read" /\ input = <<"1", "+", "2", "*", "3">>) => BothValue(7)
    /\ (pc = "read" /\ input = NegSquareLine) => BothValue(-25)

\* -(2+3)^2 was parsed as the negated square and evaluated
C15_Witness ==
    /\ pc = "read"
    /\ input = NegSquareLine
    /\ ParsedAs(<<Body(Neg(Exp(Add(N(2), N(3)), N(2))))>>)
    /\ BothValue(-25)

\* Jit::eval has returned for the statement dispatched last
JitEvaluated == pc \in {"ast", "read"} /\ jit_resp.kind \in {"Ok", "Value"}

\* C16: at the end of every JIT evaluation, of a Body as well as of
\* Functions, the cache holds the module that evaluation built if it replaced
\* no function, and is empty if it replaced one.
C16_CachingRule ==
    JitEvaluated
        => cached_module = IF jit_built.changed = <<>>
                           THEN Some(jit_built.module)
                           ELSE None

\* C17: a bracketed expression directly as the argument of a call parses to
\* the AST of the expression: f((e)) is Call{f, [e]}, and f((1+2)) is not
\* rejected as unbalanced.
C17_BracketedArgument ==
    \A e \in Inner :
        (Parsed /\ input = NestedArgText(e))
            => ParsedAs(<<Body(Call("f", <<e.op>>))>>)

\* the interpreter's failures of name and argument lookup
LookupFailures ==
    {"Could not find function",
     "Argument specified in function body was not passed in function call"}

\* C18: an evaluation of the interpreter that meets an unresolved function
\* name or an argument with no binding ends with an error outcome and leaves
\* the interpreter running with the functions installed so far.
C18_LookupFailureReturns ==
    ast_resp.msg \in LookupFailures
        => /\ ast_resp.kind = "Error"
           /\ ast_alive
           /\ OnePerName(ast_functions)

\* f(x)=x & g(y,x)=f(x) & g(1,2)
CallerFrameLine ==
    <<"f", "(", "x", ")", "=", "x", " ", "&", " ",
      "g", "(", "y", ",", "x", ")", "=", "f", "(", "x", ")", " ", "&", " ",
      "g", "(", "1", ",", "2", ")">>

\* C19: the interpreter evaluates the arguments of a user call in the
\* caller's frame: with f(x)=x and g(y,x)=f(x), g(1,2) is 2.
C19_ArgsInCallerFrame ==
    (pc = "read" /\ input = CallerFrameLine) => ast_resp = Value(2)

\* the function of the list that the module's function m was compiled from
SourceOf(m) == jit_functions[IndexOfName(jit_functions, m.name)]

\* m is compiled from the current body of a user function of the list
Current(m) ==
    /\ m.name # "_repl"
    /\ IndexOfName(jit_functions, m.name) # 0
    /\ m.nparams = Len(SourceOf(m).args)
    /\ LET b == build_block(SourceOf(m).body, SourceOf(m),
                            cached_module.module, jit_functions)
       IN  b.ok /\ m.body = b.ir

\* a name has been defined twice in the session
Redefined ==
    \E j \in 1..Len(installed), k \in 1..Len(installed) :
        j < k /\ installed[j].name = installed[k].name

\* C20: in a running JIT session every function of the cached module is a
\* user function of the function list, never the _repl wrapper, compiled
\* from that function's current body.
C20_NoStaleIR ==
    (jit_alive /\ cached_module.some)
        => \A i \in 1..Len(cached_module.module) : Current(cached_module.module[i])

\* after a redefinition the cache holds two functions again, f with the
\* body of its second definition
C20_Witness ==
    /\ Redefined
    /\ jit_alive
    /\ cached_module.some
    /\ Len(cached_module.module) >= 2
    /\ \E i \in 1..Len(cached_module.module) :
           /\ cached_module.module[i].name = "f"
           /\ SourceOf(cached_module.module[i]).body = Add(Arg("x"), N(1))
    /\ \A i \in 1..Len(cached_module.module) : Current(cached_module.module[i])

\* C21: in a running JIT session whose cache is empty, building the module
\* from scratch compiles every user function of the function list, whatever
\* the order of callers and callees in the list.
C21_RebuildCompiles ==
    (jit_alive /\ ~cached_module.some)
        => CompileAll(Retained(jit_functions), 1, <<>>, <<>>).ok

ReplEntries(functions) ==
    {i \in 1..Len(functions) : functions[i].name = "_repl"}

\* C23: the JIT's function list holds at most one _repl entry, and after the
\* evaluation of a Body its last entry is the wrapper of that Body, with no
\* arguments; the function that was executed is the module's _repl, a
\* function of no parameters.
C23_OneReplLast ==
    /\ Cardinality(ReplEntries(jit_functions)) <= 1
    /\ (pc # "jit" /\ stmt.kind = "Body" /\ jit_resp # NoResponse)
           => /\ jit_functions # <<>>
              /\ jit_functions[Len(jit_functions)] = Function("_repl", <<>>, stmt.op)
    /\ (pc # "jit" /\ stmt.kind = "Body" /\ jit_resp.kind = "Value")
           => /\ IndexOfName(jit_built.module, "_repl") # 0
              /\ jit_built.module[IndexOfName(jit_built.module, "_repl")].nparams = 0

\* f(3) is 4 on the second line: the first line was f(x)=x & f(x)=x+1 & f(1),
\* whose _repl was removed before the wrapper of f(3) was installed
C23_Witness ==
    /\ pc = "read"
    /\ lines = 2
    /\ input = <<"f", "(", "3", ")">>
    /\ jit_resp = Value(4)
    /\ jit_functions = <<Function("f", <<"x">>, Add(Arg("x"), N(1))),
                         Function("_repl", <<>>, Call("f", <<N(3)>>))>>

\* C24: tokenization of any line returns the tokens or an error value that
\* names an offset of a character of the line, and the process goes on: the
\* line 1.2.3 and a line with a character of several bytes give the error
\* `unexpected token`.
C24_TokenizerReturns ==
    (pc # "new" /\ ~lexed.ok)
        => /\ lexed.err = "unexpected token"
           /\ lexed.pos \in 0..(Utf8Bytes(input) - 1)
           /\ IsCharBoundary(input, lexed.pos)
           /\ ast_alive
           /\ jit_alive

\* the last n tokens of the line
Suffix(n) == SubSeq(tokens, Len(tokens) - n + 1, Len(tokens))

\* r is an error, or a result that left fewer tokens than toks
Consumed(toks, r) == ~r.ok \/ Len(r.toks) < Len(toks)

\* C25: Parser::parse returns a result or an error for every line, the
\* unterminated calls f(1 and f( included, and from every point of the token
\* sequence a round of each loop takes at least one token or returns an
\* error: an argument of a call, the brackets collected by parse_primary,
\* and a statement after `&`.
C25_ParseTerminates ==
    /\ (pc \notin {"new", "parse"} /\ lexed.ok) => (parsed.ok \/ parsed.err # "")
    /\ (pc \notin {"new", "parse"} /\ input \in {<<"f", "(", "1">>, <<"f", "(">>})
           => parsed = Err("expected number or open bracket")
    /\ pc = "parse"
           => \A n \in 0..Len(tokens) :
                  /\ peek(Suffix(n)) # "Close"
                         => Consumed(Suffix(n), parse_expr(Suffix(n)))
                  /\ peek(Suffix(n)) = "Open"
                         => Consumed(Suffix(n), parse_primary(Suffix(n)))
                  /\ peek(Suffix(n)) = "Chain"
                         => Consumed(Suffix(n),
                                     parse_expression_chain_single(pop(Suffix(n))))

\* the call f(1 ran out of tokens in its argument loop and parse returned
\* the error
C25_Witness ==
    /\ pc = "read"
    /\ input = <<"f", "(", "1">>
    /\ lexed.ok
    /\ Len(lexed.tokens) = 3
    /\ parsed = Err("expected number or open bracket")

\* the characters of a numeric lexeme
NumChars == Digits \cup {"."}

\* the i-th character of the line is the first of its lexeme
StartsLexeme(i) ==
    /\ input[i] # " "
    /\ input[i] \in NumChars => (i = 1 \/ input[i - 1] \notin NumChars)

\* the j-th token is the Mul put before the bracket at its offset
Synthetic(j) ==
    /\ lexed.tokens[j].k = "Mul"
    /\ input[lexed.tokens[j].pos + 1] = "("
    /\ j < Len(lexed.tokens)
    /\ lexed.tokens[j + 1].k = "Open"
    /\ lexed.tokens[j + 1].pos = lexed.tokens[j].pos

\* the j-th token is the token of the lexeme that starts at its offset
Tagged(j) ==
    LET t == lexed.tokens[j]
        c == input[t.pos + 1]
    IN  /\ t.pos \in 0..(Len(input) - 1)
        /\ StartsLexeme(t.pos + 1)
        /\ CASE t.k = "Id" -> c \in Lower \cup Upper /\ t.ch = c
             [] t.k = "Num" -> c \in NumChars
             [] OTHER -> Trivial(c) = t.k \/ Synthetic(j)

\* C26: on every line the tokenizer accepts, each character takes one byte,
\* each token carries the offset of the first character of its lexeme,
\* offsets do not decrease and are equal only for a synthetic Mul and the
\* Open after it, no token starts at a space, and each letter has exactly
\* one token, an Id.
C26_TokenOffsets ==
    (pc # "new" /\ lexed.ok)
        => /\ \A i \in 1..Len(input) : LenUtf8(input[i]) = 1
           /\ \A j \in 1..Len(lexed.tokens) : Tagged(j)
           /\ \A j \in 1..(Len(lexed.tokens) - 1) :
                  /\ lexed.tokens[j].pos <= lexed.tokens[j + 1].pos
                  /\ lexed.tokens[j].pos = lexed.tokens[j + 1].pos => Synthetic(j)
           /\ \A i \in 1..Len(input) :
                  /\ StartsLexeme(i) => \E j \in 1..Len(lexed.tokens) :
                                            lexed.tokens[j].pos = i - 1
                  /\ input[i] \in Lower \cup Upper
                         => /\ Cardinality({j \in 1..Len(lexed.tokens) :
                                               lexed.tokens[j].pos = i - 1}) = 1
                            /\ \E j \in 1..Len(lexed.tokens) :
                                   lexed.tokens[j] = [k |-> "Id", pos |-> i - 1,
                                                      v |-> F(0), ch |-> input[i]]

\* g(x)=x & sum(1,10,1): spaces, letters, and tokens after the two digits of 10
C26_Witness ==
    /\ pc # "new"
    /\ lexed.ok
    /\ input = <<"g", "(", "x", ")", "=", "x", " ", "&", " ",
                 "s", "u", "m", "(", "1", ",", "1", "0", ",", "1", ")">>
    /\ Len(lexed.tokens) = 17
    /\ lexed.tokens[14].k = "Num" /\ lexed.tokens[14].pos = 15
    /\ lexed.tokens[15].k = "Delim" /\ lexed.tokens[15].pos = 17
    /\ lexed.tokens[7].k = "Chain" /\ lexed.tokens[7].pos = 7

(***************************************************************************)
(* Specifications.                                                         *)
(***************************************************************************)
\* a session of up to MaxLines lines
Init ==
    /\ input = <<>>
    /\ pc = "read"
    /\ lines = 0
    /\ Fresh

Next ==
    \/ \E line \in SessionLines : ReadLine(line)
    \/ New
    \/ Parse
    \/ AstEval
    \/ JitEval

Spec == Init /\ [][Next]_vars

\* a fresh session that is given one line
LineInit ==
    /\ input \in LineInputs
    /\ pc = "new"
    /\ lines = 1
    /\ Fresh

LineNext ==
    \/ New
    \/ Parse
    \/ AstEval
    \/ JitEval

LineSpec == LineInit /\ [][LineNext]_vars

====
